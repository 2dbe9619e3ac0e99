------------------------------ MODULE Backups -------------------------------
(***************************************************************************)
(* Copies of the live data and what replaces it: the online backup         *)
(* (backup_service.py), its offline restore (backup_restore_service.py),   *)
(* the physical backup before a migration and its drill, the cutover to a  *)
(* migrated copy, the launcher's upgrade and the upgrade in place          *)
(* (scripts/), and the process of the API, all around one instance lock.   *)
(*                                                                         *)
(* Simplifications:                                                        *)
(*  - a document stands for all business data: a row in SQLite, its bytes  *)
(*    under uploads and its vectors in Chroma;                             *)
(*  - the jobs that index documents are in JobQueue, which keeps them and  *)
(*    a backup apart: here a document is indexed when its row commits;     *)
(*  - the first online archive is the one that is followed;                *)
(*  - archive digests and fingerprints are exact;                          *)
(*  - a process ends in the step in which it releases its lock.            *)
(***************************************************************************)
EXTENDS Integers, FiniteSets

CONSTANTS
  Documents,
  None,        \* no document, no file, nobody
  MaxSaves,    \* bound on the physical backups made
  MaxFaults    \* bound on crashes, failing steps and damaged archives

(* "legacy" is 0001_current_schema, "earlier" any revision up to the head. *)
Revisions == {"unversioned", "legacy", "earlier", "head"}
Databases == [revision : Revisions, tables : BOOLEAN, rows : SUBSET Documents,
              draining : BOOLEAN]
Copies == [db : Databases, uploads : SUBSET Documents, chroma : SUBSET Documents,
           torn : SUBSET Documents]

(* Archives made online, staged and restored; physical ones; holders of    *)
(* the lock.                                                               *)
Archives == [copy : Copies, sound : BOOLEAN]
Restored == [copy : Copies, sound : BOOLEAN, complete : BOOLEAN]
Saved == [no : 1 .. MaxSaves, copy : Copies, sound : BOOLEAN]
Holders == {"api", "restore", "save", "drill", "cutover"}

(* Where the long operations are, and what they have so far.               *)
Writes == [at : {"idle", "upload", "delete"}, of : Documents \union {None}]
BackupStates == [at : {"idle", "queued", "snapshot", "collections", "files",
                       "publish", "finish"},
                 copy : Copies \union {None}]
RestoreStates == [at : {"idle", "extract", "import", "rename"},
                  copy : Restored \union {None}]
CutoverStates == [at : {"idle", "checked", "locked", "migrated", "moved"},
                  expected : Databases \union {None},
                  candidate : Databases \union {None}]
Upgrades == [from : Databases, to : Databases]

ASSUME ConstantsAssumption ==
  /\ None \notin Documents \union Databases \union Archives \union Holders
  /\ MaxSaves \in Nat /\ MaxFaults \in Nat

VARIABLES
  lock,        \* who holds .instance.lock
  database,    \* the live database file
  uploads,     \* documents with their bytes on disk
  chroma,      \* documents with vectors
  request,     \* the business write in progress
  backup,      \* where OnlineBackupService.run is, and what it copied
  archive,     \* the online archive
  restore,     \* where BackupRestoreService.restore is, and its staging
  target,      \* the directory a restore made
  saving,      \* the snapshot create_backup holds
  saved,       \* the physical archive
  leftover,    \* temporary files of a create_backup that did not end
  drills,      \* the archives that were restored in a drill
  cutover,     \* where final_cutover is, the fingerprint, the candidate
  retained,    \* the original a cutover moved away
  upgrade,     \* the candidate of upgrade_database_copy
  environment, \* whether DATABASE_URL is set, to the live database
  kept,        \* documents whose upload was answered and not their deletion
  torn,        \* documents a crash, or an older database, left half deleted
  excused,     \* what has made the live database another one
  saves, faults

stores == <<database, uploads, chroma, request, kept, torn>>
online == <<backup, archive, restore, target>>
offline == <<saving, saved, leftover, drills, cutover, retained, upgrade>>
rest == <<environment, excused, saves>>
vars == <<lock, database, uploads, chroma, request, backup, archive, restore,
          target, saving, saved, leftover, drills, cutover, retained, upgrade,
          environment, kept, torn, excused, saves, faults>>

TypeOK ==
  /\ lock \in Holders \union {None}
  /\ database \in Databases \union {None}
  /\ uploads \subseteq Documents /\ chroma \subseteq Documents
  /\ request \in Writes
  /\ backup \in BackupStates /\ archive \in Archives \union {None}
  /\ restore \in RestoreStates /\ target \in Restored \union {None}
  /\ saving \in Databases \union {None} /\ saved \in Saved \union {None}
  /\ leftover \in BOOLEAN
  /\ drills \subseteq Saved
  /\ cutover \in CutoverStates /\ retained \in Databases \union {None}
  /\ upgrade \in Upgrades \union {None}
  /\ environment \in {"unset", "live"}
  /\ kept \subseteq Documents /\ torn \subseteq Documents
  /\ excused \subseteq {"cutover interrupted", "cutover overlapped", "upgrade overtaken"}
  /\ saves \in 0 .. MaxSaves /\ faults \in 0 .. MaxFaults
-----------------------------------------------------------------------------
(* A file SQLite has just created: no schema, no revision.                 *)
Empty == [revision |-> "unversioned", tables |-> FALSE, rows |-> {},
          draining |-> FALSE]

(* Jobs that were under way do not go on in a copy.                        *)
Scrubbed(db) == [db EXCEPT !.draining = FALSE]

Migrated(db) == [db EXCEPT !.revision = "head", !.tables = TRUE]

Fault == faults < MaxFaults /\ faults' = faults + 1

Acquire(who) == lock = None /\ lock' = who
Release == lock' = None

Idle == [at |-> "idle", copy |-> None]

Init ==
  /\ lock = None
  /\ database \in [revision : Revisions, tables : {TRUE}, rows : {{}},
                   draining : {FALSE}]
  /\ uploads = {} /\ chroma = {} /\ kept = {} /\ torn = {}
  /\ request = [at |-> "idle", of |-> None]
  /\ backup = Idle /\ restore = Idle
  /\ archive = None /\ target = None
  /\ saving = None /\ saved = None /\ leftover = FALSE /\ drills = {}
  /\ cutover = [at |-> "idle", expected |-> None, candidate |-> None]
  /\ retained = None /\ upgrade = None
  /\ environment \in {"unset", "live"}
  /\ excused = {} /\ saves = 0 /\ faults = 0
-----------------------------------------------------------------------------
(* The API takes the lock before it opens the database, and gives it back  *)
(* when the revision is not the head.  Opening a file that is not there    *)
(* creates it.                                                             *)
StartApi ==
  /\ lock = None
  /\ \/ database = None /\ database' = Empty /\ UNCHANGED lock
     \/ /\ database # None /\ database.revision = "head"
        /\ lock' = "api" /\ UNCHANGED database
  /\ UNCHANGED <<uploads, chroma, request, kept, torn, online, offline, rest,
                 faults>>

(* The release that runs on the old schema: pre_migration_backup.py counts *)
(* on its holding the lock.  External.                                     *)
StartPrevious ==
  /\ Acquire("api")
  /\ database # None /\ database.revision # "head" /\ database.tables
  /\ UNCHANGED <<stores, online, offline, rest, faults>>

(* A stop or a crash: the worker is a daemon thread, and a deletion under  *)
(* way has removed the vectors and the bytes but not the row.              *)
StopApi ==
  /\ lock = "api" /\ Release
  /\ IF request.at = "idle" /\ backup.at = "idle" THEN UNCHANGED faults ELSE Fault
  /\ torn' = IF request.at = "delete" THEN torn \union {request.of} ELSE torn
  /\ request' = [at |-> "idle", of |-> None]
  /\ backup' = Idle
  /\ UNCHANGED <<database, uploads, chroma, kept, archive, restore, target,
                 offline, rest>>

(* The exclusive side of the barrier, from its entry to os.replace.        *)
Exclusive == backup.at \in {"snapshot", "collections", "files", "publish"}

(* MUTANT of BusinessWrite: a write does not wait for the barrier.         *)
BusinessWriteAlways == lock = "api" /\ request.at = "idle"

BusinessWrite == lock = "api" /\ request.at = "idle" /\ ~Exclusive

(* A business write, in two steps: the stores without transactions, then   *)
(* the row.                                                                *)
StartUpload(d) ==
  /\ BusinessWrite /\ ~database.draining
  /\ d \notin uploads /\ d \notin database.rows
  /\ request' = [at |-> "upload", of |-> d]
  /\ uploads' = uploads \union {d} /\ chroma' = chroma \union {d}
  /\ UNCHANGED <<lock, database, kept, torn, online, offline, rest, faults>>

StartDelete(d) ==
  /\ BusinessWrite /\ d \in database.rows
  /\ request' = [at |-> "delete", of |-> d]
  /\ uploads' = uploads \ {d} /\ chroma' = chroma \ {d}
  /\ UNCHANGED <<lock, database, kept, torn, online, offline, rest, faults>>

CommitRequest ==
  /\ lock = "api" /\ request.at # "idle"
  /\ LET after(s) == IF request.at = "upload" THEN s \union {request.of}
                                              ELSE s \ {request.of}
     IN database' = [database EXCEPT !.rows = after(@)] /\ kept' = after(kept)
  /\ request' = [at |-> "idle", of |-> None]
  /\ torn' = torn \ {request.of}
  /\ UNCHANGED <<lock, uploads, chroma, online, offline, rest, faults>>
-----------------------------------------------------------------------------
(* POST /backups: the job and the draining row are written inside the      *)
(* exclusive side, so that no write is under way.                          *)
SubmitBackup ==
  /\ lock = "api" /\ request.at = "idle" /\ backup.at = "idle"
  /\ database.revision = "head" /\ ~database.draining /\ archive = None
  /\ database' = [database EXCEPT !.draining = TRUE]
  /\ backup' = [Idle EXCEPT !.at = "queued"]
  /\ UNCHANGED <<lock, uploads, chroma, request, kept, torn, archive, restore,
                 target, offline, rest, faults>>

BackupStep(from, to, copied) ==
  /\ lock = "api" /\ backup.at = from
  /\ backup' = [at |-> to, copy |-> copied]
  /\ UNCHANGED <<lock, stores, restore, target, offline, rest, faults>>

(* backup_exclusive waits until no business write holds a permit.          *)
EnterExclusive == /\ request.at = "idle"
                  /\ BackupStep("queued", "snapshot", None)
                  /\ UNCHANGED archive

Snapshot == /\ BackupStep("snapshot", "collections",
                   [db |-> Scrubbed(database), uploads |-> {}, chroma |-> {},
                    torn |-> torn])
            /\ UNCHANGED archive

ExportCollections == /\ BackupStep("collections", "files",
                                   [backup.copy EXCEPT !.chroma = chroma])
                     /\ UNCHANGED archive

AddFiles == /\ BackupStep("files", "publish",
                          [backup.copy EXCEPT !.uploads = uploads])
            /\ UNCHANGED archive

Publish == /\ BackupStep("publish", "finish", None)
           /\ archive' = [copy |-> backup.copy, sound |-> TRUE]

(* The end of a backup, after a failure too: what is partial is moved out  *)
(* of the way, the draining row goes, and the job ends.                    *)
EndBackup ==
  /\ lock = "api" /\ backup.at \notin {"idle", "queued"}
  /\ IF backup.at = "finish" THEN UNCHANGED faults ELSE Fault
  /\ database' = [database EXCEPT !.draining = FALSE]
  /\ backup' = Idle
  /\ UNCHANGED <<lock, uploads, chroma, request, kept, torn, archive, restore,
                 target, offline, rest>>

(* After its lease has expired, a backup is ended and never run again.     *)
RecoverBackup ==
  /\ lock = "api" /\ backup.at = "idle" /\ database.draining
  /\ database' = [database EXCEPT !.draining = FALSE]
  /\ UNCHANGED <<lock, uploads, chroma, request, kept, torn, online, offline,
                 rest, faults>>
-----------------------------------------------------------------------------
(* restore_backup.py: extraction into a staging directory, verification of *)
(* every member, import, and one rename.  A run that fails or crashes      *)
(* leaves its staging directory, which no later run uses.                  *)
StartRestore ==
  /\ archive # None /\ target = None /\ Acquire("restore")
  /\ restore' = [at |-> "extract", copy |-> None]
  /\ UNCHANGED <<stores, backup, archive, target, offline, rest, faults>>

(* The digest of every member, and the signature over all of them.         *)
Trusted(a) == a.sound

Extract ==
  /\ restore.at = "extract" /\ Trusted(archive)
  /\ restore' = [at |-> "import", copy |-> [copy |-> archive.copy,
                                            sound |-> archive.sound,
                                            complete |-> FALSE]]
  /\ UNCHANGED <<lock, stores, backup, archive, target, offline, rest, faults>>

(* Every pointer of the database must name an imported collection.         *)
ImportCollections ==
  /\ restore.at = "import"
  /\ restore' = [at |-> "rename", copy |-> [restore.copy EXCEPT
                    !.copy.db = Scrubbed(@), !.complete = TRUE]]
  /\ UNCHANGED <<lock, stores, backup, archive, target, offline, rest, faults>>

RenameStaging ==
  /\ restore.at = "rename" /\ Release
  /\ target' = restore.copy /\ restore' = Idle
  /\ UNCHANGED <<stores, backup, archive, offline, rest, faults>>

(* A refused archive, a failing step or a crash.                           *)
AbandonRestore ==
  /\ restore.at # "idle" /\ Release
  /\ IF restore.at = "extract" /\ ~Trusted(archive) THEN UNCHANGED faults ELSE Fault
  /\ restore' = Idle
  /\ UNCHANGED <<stores, backup, archive, target, offline, rest>>

(* A member of an archive changes on disk.  External.                      *)
Damage ==
  /\ Fault
  /\ \/ archive # None /\ archive' = [archive EXCEPT !.sound = FALSE] /\ UNCHANGED saved
     \/ saved # None /\ saved' = [saved EXCEPT !.sound = FALSE] /\ UNCHANGED archive
  /\ UNCHANGED <<lock, stores, backup, restore, target, saving, leftover, drills,
                 cutover, retained, upgrade, rest>>
-----------------------------------------------------------------------------
(* pre_migration_backup.py: refuses to overwrite, and to start over what   *)
(* an earlier run left behind.                                             *)
StartSave ==
  /\ saved = None /\ ~leftover /\ saves < MaxSaves
  /\ database # None /\ Acquire("save")
  /\ saving' = database /\ saves' = saves + 1
  /\ UNCHANGED <<stores, online, saved, leftover, drills, cutover, retained,
                 upgrade, environment, excused, faults>>

FinishSave ==
  /\ lock = "save" /\ Release
  /\ saved' = [no |-> saves, sound |-> TRUE,
               copy |-> [db |-> saving, uploads |-> uploads, chroma |-> chroma,
                         torn |-> torn]]
  /\ saving' = None
  /\ UNCHANGED <<stores, online, leftover, drills, cutover, retained, upgrade,
                 rest, faults>>

(* A failure removes the snapshot but not a partial archive; a crash       *)
(* leaves both.                                                            *)
AbandonSave ==
  /\ lock = "save" /\ Release /\ Fault
  /\ saving' = None /\ leftover' \in BOOLEAN
  /\ UNCHANGED <<stores, online, saved, drills, cutover, retained, upgrade, rest>>

(* The operator removes the archive or the leftovers.  External.           *)
Discard ==
  /\ lock # "save" /\ (saved # None \/ leftover)
  /\ saved' = None /\ leftover' = FALSE
  /\ UNCHANGED <<lock, stores, online, saving, drills, cutover, retained,
                 upgrade, rest, faults>>

(* restore_pre_migration_backup.py: every member and the fingerprint of    *)
(* the database are verified, then a marker names the archive.             *)
StartDrill == /\ saved # None /\ Acquire("drill")
              /\ UNCHANGED <<stores, online, offline, rest, faults>>

EndDrill ==
  /\ lock = "drill" /\ Release
  /\ \/ saved # None /\ saved.sound /\ drills' = drills \union {saved}
     \/ UNCHANGED drills
  /\ UNCHANGED <<stores, online, saving, saved, leftover, cutover, retained,
                 upgrade, rest, faults>>
-----------------------------------------------------------------------------
(* final_cutover: the archive and the marker are compared before the lock  *)
(* is taken, the database after.                                           *)
CheckProofs ==
  /\ cutover.at = "idle" /\ saved # None /\ saved \in drills
  /\ cutover' = [at |-> "checked", expected |-> saved.copy.db, candidate |-> None]
  /\ UNCHANGED <<lock, stores, online, saving, saved, leftover, drills, retained,
                 upgrade, rest, faults>>

(* MUTANT of Unchanged: the fingerprint is compared before the lock only.  *)
UnchangedBefore == database # None

(* The fingerprint of the database is that of the archive.                 *)
Unchanged == database # None /\ database = cutover.expected

(* MUTANT of LockCutover: what the drill restored is migrated.             *)
LockCutoverOnDrill ==
  /\ cutover.at = "checked" /\ database # None /\ Acquire("cutover")
  /\ cutover' = [cutover EXCEPT !.at = "migrated",
                                !.candidate = Migrated(cutover.expected)]
  /\ UNCHANGED <<stores, online, saving, saved, leftover, drills, retained,
                 upgrade, rest, faults>>

LockCutover ==
  /\ cutover.at = "checked" /\ Unchanged /\ Acquire("cutover")
  /\ cutover' = [cutover EXCEPT !.at = "locked"]
  /\ UNCHANGED <<stores, online, saving, saved, leftover, drills, retained,
                 upgrade, rest, faults>>

(* Of the database as it is, not of the archive.  With DATABASE_URL set,   *)
(* alembic/env.py sends the upgrade of the reference elsewhere, and the    *)
(* comparison with it fails.                                               *)
MigrateCopy ==
  /\ cutover.at = "locked"
  /\ database.revision \in {"unversioned", "legacy"} /\ database.tables
  /\ environment = "unset"
  /\ cutover' = [cutover EXCEPT !.at = "migrated", !.candidate = Migrated(database)]
  /\ UNCHANGED <<lock, stores, online, saving, saved, leftover, drills, retained,
                 upgrade, rest, faults>>

MoveAway ==
  /\ cutover.at = "migrated"
  /\ retained' = database /\ database' = None
  /\ cutover' = [cutover EXCEPT !.at = "moved"]
  /\ UNCHANGED <<lock, uploads, chroma, request, kept, torn, online, saving,
                 saved, leftover, drills, upgrade, rest, faults>>

MoveIn ==
  /\ cutover.at = "moved" /\ Release
  /\ \/ database' = cutover.candidate /\ UNCHANGED <<retained, faults>>
     \/ database' = retained /\ retained' = None /\ Fault
  /\ cutover' = [at |-> "idle", expected |-> None, candidate |-> None]
  /\ UNCHANGED <<uploads, chroma, request, kept, torn, online, saving, saved,
                 leftover, drills, upgrade, rest>>

(* A refusal, a failure or a crash; one between the two renames leaves no  *)
(* database under the name.                                                *)
AbandonCutover ==
  /\ \/ cutover.at = "checked" /\ UNCHANGED lock
     \/ cutover.at \in {"locked", "migrated", "moved"} /\ Release
  /\ IF cutover.at \in {"checked", "locked"} THEN UNCHANGED faults ELSE Fault
  /\ excused' = IF cutover.at = "moved" THEN excused \union {"cutover interrupted"}
                                        ELSE excused
  /\ cutover' = [at |-> "idle", expected |-> None, candidate |-> None]
  /\ UNCHANGED <<stores, online, saving, saved, leftover, drills, retained,
                 upgrade, environment, saves>>

(* run_migrations.py upgrades in place, under the lock.  It creates the    *)
(* schema where there is none, and cannot over tables without a revision.  *)
MigrateInPlace ==
  /\ lock = None
  /\ \/ database = None /\ database' = Migrated(Empty)
     \/ /\ database # None
        /\ database.revision # "unversioned" \/ ~database.tables
        /\ database' = Migrated(database)
  /\ UNCHANGED <<lock, uploads, chroma, request, kept, torn, online, offline,
                 rest, faults>>

(* upgrade_database_copy, run by the launcher: no lock.  With DATABASE_URL *)
(* set it upgrades the live database in place, finds its candidate still   *)
(* old, and fails.                                                         *)
Overlapped == IF lock = "cutover" THEN {"cutover overlapped"} ELSE {}

StartUpgrade ==
  /\ upgrade = None /\ database # None
  /\ database.revision \in {"legacy", "earlier"}
  /\ \/ /\ environment = "unset"
        /\ upgrade' = [from |-> database, to |-> Migrated(database)]
        /\ UNCHANGED <<database, excused>>
     \/ /\ environment = "live"
        /\ database' = Migrated(database) /\ excused' = excused \union Overlapped
        /\ UNCHANGED upgrade
  /\ UNCHANGED <<lock, uploads, chroma, request, kept, torn, online, saving,
                 saved, leftover, drills, cutover, retained, environment, saves,
                 faults>>

(* os.replace, which the platform of the launcher, Windows, refuses while  *)
(* a process of the API has the file open; the code does not ask.          *)
ReplaceByUpgrade ==
  /\ upgrade # None /\ lock # "api" /\ database' = upgrade.to
  /\ excused' = excused \union Overlapped \union
                  (IF database = upgrade.from THEN {} ELSE {"upgrade overtaken"})
  /\ torn' = torn \union (upgrade.to.rows \ (uploads \intersect chroma))
  /\ upgrade' = None
  /\ UNCHANGED <<lock, uploads, chroma, request, kept, online, saving, saved,
                 leftover, drills, cutover, retained, environment, saves, faults>>

AbandonUpgrade ==
  /\ upgrade # None /\ upgrade' = None
  /\ UNCHANGED <<lock, stores, online, saving, saved, leftover, drills, cutover,
                 retained, rest, faults>>
-----------------------------------------------------------------------------
Next ==
  \/ StartApi \/ StartPrevious \/ StopApi
  \/ \E d \in Documents : StartUpload(d) \/ StartDelete(d)
  \/ CommitRequest
  \/ SubmitBackup \/ EnterExclusive \/ Snapshot \/ ExportCollections \/ AddFiles
  \/ Publish \/ EndBackup \/ RecoverBackup
  \/ StartRestore \/ Extract \/ ImportCollections \/ RenameStaging
  \/ AbandonRestore \/ Damage
  \/ StartSave \/ FinishSave \/ AbandonSave \/ Discard
  \/ StartDrill \/ EndDrill
  \/ CheckProofs \/ LockCutover \/ MigrateCopy \/ MoveAway \/ MoveIn
  \/ AbandonCutover \/ MigrateInPlace
  \/ StartUpgrade \/ ReplaceByUpgrade \/ AbandonUpgrade

Spec == Init /\ [][Next]_vars
-----------------------------------------------------------------------------
Whole(copy) == copy.db.rows \ copy.torn \subseteq copy.uploads \intersect copy.chroma

(* An archive, online or physical, holds the bytes and the vectors of      *)
(* every document its database knows, but for those that were half deleted *)
(* before; one made online says of no job that it is under way.  The       *)
(* directory a restore has made is what was archived, complete and         *)
(* unchanged, whatever run before it failed or archive was damaged.  (And  *)
(* the variables have their types.)                                        *)
ArchivesAreWhole ==
  /\ TypeOK
  /\ archive # None => Whole(archive.copy) /\ ~archive.copy.db.draining
  /\ saved # None => Whole(saved.copy)
  /\ target # None => /\ target.complete /\ target.sound
                      /\ target.copy = archive.copy

(* A document whose upload was answered is in the live database, whatever  *)
(* migration ran in between.  Two exceptions: a cutover that crashed       *)
(* between its renames has it in the original it retained, and an upgrade  *)
(* of the launcher that was overtaken by another one forgets it.           *)
NoWriteIsLost ==
  \/ "upgrade overtaken" \in excused
  \/ \A d \in kept :
       \/ database # None /\ d \in database.rows
       \/ /\ cutover.at = "moved" \/ "cutover interrupted" \in excused
          /\ d \in retained.rows

(* A cutover moves a database away only when the very same content was     *)
(* restored from an archive before, unless the launcher upgraded the       *)
(* database while the cutover held the lock the launcher does not take.    *)
CutoverIsBackedUp ==
  [][database # None /\ database' = None /\ "cutover overlapped" \notin excused
       => \E a \in drills : a.copy.db = database]_vars
=============================================================================
